---- MODULE Spec2Model ----
(***************************************************************************)
(* A state-machine model of the playblast controller BPlayblast            *)
(* (src/main.py): its configuration setters, the preset resolvers, and the *)
(* execute() orchestration (validation, viewport save/apply/restore, the   *)
(* capture primitive, the h264 encode step, temp-directory removal and the *)
(* viewer launch), together with the host (Maya) state the controller      *)
(* reads and writes.                                                       *)
(*                                                                         *)
(* Conventions.  Python None is the string None.  A Python string that is  *)
(* used as a path or a template is a sequence of tokens, so that the empty *)
(* string is <<>> and replace() is a substitution of tokens.  A visibility *)
(* vector is a sequence of booleans; the per-flag map built by             *)
(* create_viewport_visibility_flags is kept positionally (slot i of the    *)
(* catalog), the flag names of the catalog being pairwise distinct.        *)
(* The variables op, log, raised, pre and trace observe one call of the    *)
(* controller: which operation runs, the error-level lines it logged, the  *)
(* exception that left it, the host state right before it, and the         *)
(* external effects it has had so far.                                     *)
(***************************************************************************)
EXTENDS Integers, Sequences, FiniteSets, TLC

None == "None"

\* ---------------------------------------------------------------- bounds

\* Number of setter calls and host changes explored between constructions.
MaxOps == 2

\* ------------------------------------------------------- class constants

DEFAULT_FFMPEG_PATH == ""
DEFAULT_CAMERA == None
DEFAULT_RESOLUTION == "Render"
DEFAULT_FRAME_RANGE == "Render"
DEFAULT_CONTAINER == "mp4"
DEFAULT_ENCODER == "h264"
DEFAULT_H264_QUALITY == "High"
DEFAULT_H264_PRESET == "fast"
DEFAULT_IMAGE_QUALITY == 100
DEFAULT_PADDING == 4
DEFAULT_VISIBILITY == "Viewport"

RESOLUTION_LOOKUP ==
    [n \in {"Render", "HD 1080", "HD 720", "HD 540"} |->
        CASE n = "Render"  -> <<>>
          [] n = "HD 1080" -> <<1920, 1080>>
          [] n = "HD 720"  -> <<1280, 720>>
          [] n = "HD 540"  -> <<960, 540>>]

FRAME_RANGE_PRESETS == {"Render", "Playback", "Animation"}

VIDEO_ENCODER_LOOKUP ==
    [c \in {"mov", "mp4", "Image"} |->
        CASE c = "mov"   -> {"h264"}
          [] c = "mp4"   -> {"h264"}
          [] c = "Image" -> {"jpg", "png", "tif"}]

H264_QUALITIES ==
    [q \in {"Very high", "High", "Medium", "Low"} |->
        CASE q = "Very high" -> 18
          [] q = "High"      -> 20
          [] q = "Medium"    -> 23
          [] q = "Low"       -> 26]

H264_PRESETS == {"veryslow", "slow", "medium", "fast", "faster", "ultrafast"}

VIEWPORT_VISIBILITY_LOOKUP == <<
    <<"Controllers", "controllers">>,
    <<"NURBS Curves", "nurbsCurves">>,
    <<"NURBS Surfaces", "nurbsSurfaces">>,
    <<"NURBS CVs", "cv">>,
    <<"NURBS Hulls", "hulls">>,
    <<"Polygons", "polymeshes">>,
    <<"Subdiv Surfaces", "subdivSurfaces">>,
    <<"Planes", "planes">>,
    <<"Lights", "lights">>,
    <<"Cameras", "cameras">>,
    <<"Image Planes", "imagePlane">>,
    <<"Joints", "joints">>,
    <<"IK Handles", "ikHandles">>,
    <<"Deformers", "deformers">>,
    <<"Dynamics", "dynamics">>,
    <<"Particle Instancers", "particleInstancers">>,
    <<"Fluids", "fluids">>,
    <<"Hair Systems", "hairSystems">>,
    <<"Follicles", "follicles">>,
    <<"nCloths", "nCloths">>,
    <<"nParticles", "nParticles">>,
    <<"nRigids", "nRigids">>,
    <<"Dynamic Constraints", "dynamicConstraints">>,
    <<"Locators", "locators">>,
    <<"Dimensions", "dimensions">>,
    <<"Pivots", "pivots">>,
    <<"Handles", "handles">>,
    <<"Texture Placements", "textures">>,
    <<"Strokes", "strokes">>,
    <<"Motion Trails", "motionTrails">>,
    <<"Plugin Shapes", "pluginShapes">>,
    <<"Clip Ghosts", "clipGhosts">>,
    <<"Grease Pencil", "greasePencils">>,
    <<"Grid", "grid">>,
    <<"HUD", "hud">>,
    <<"Hold-Outs", "hos">>,
    <<"Selection Highlighting", "sel">> >>

VIEWPORT_VISIBILITY_PRESETS ==
    [p \in {"Viewport", "Geo", "Dynamics"} |->
        CASE p = "Viewport" -> {}
          [] p = "Geo"      -> {"NURBS Surfaces", "Polygons"}
          [] p = "Dynamics" -> {"NURBS Surfaces", "Polygons", "Dynamics",
                                "Fluids", "nParticles"}]

\* len(VIEWPORT_VISIBILITY_LOOKUP): the number of catalog slots the loops of
\* get_viewport_visibility and create_viewport_visibility_flags run over.
CatalogLen == Len(VIEWPORT_VISIBILITY_LOOKUP)

\* ------------------------------------------------ Python values (inputs)

\* An argument handed to a setter is a tagged Python value: the setters
\* branch on the type of what they are given (str, list/tuple, None, int).
PyNone == [type |-> "NoneType", val |-> None]
PyStr(s) == [type |-> "str", val |-> s]
PyInt(n) == [type |-> "int", val |-> n]
PyFloat(tenths) == [type |-> "float", val |-> tenths]
PyTuple(q) == [type |-> "tuple", val |-> q]

\* Python truthiness of a tagged value (`if not x`).
Truthy(x) ==
    CASE x.type = "NoneType" -> FALSE
      [] x.type = "str"      -> x.val # ""
      [] x.type = "tuple"    -> Len(x.val) > 0
      [] x.type = "int"      -> x.val # 0
      [] x.type = "float"    -> x.val # 0

\* x[i] (0-based) evaluates without IndexError/TypeError.
HasItem(x, i) ==
    CASE x.type = "tuple" -> i < Len(x.val)
      [] x.type = "str"   -> x.val # "" /\ i = 0
      [] OTHER            -> FALSE

\* isinstance(x[i], int), for an x[i] that exists: an item of a str is a str.
ItemIsInt(x, i) == x.type = "tuple" /\ x.val[i + 1].type = "int"

\* int(x) of a host float kept in tenths: truncation toward zero.
IntTrunc(tenths) ==
    IF tenths >= 0 THEN tenths \div 10 ELSE -((-tenths) \div 10)

\* ------------------------------------------------------ strings and paths

\* str.replace(placeholder, value) on a token string.
RECURSIVE Replace(_, _, _)
Replace(s, placeholder, value) ==
    IF s = <<>> THEN <<>>
    ELSE (IF Head(s) = placeholder THEN value ELSE <<Head(s)>>)
         \o Replace(Tail(s), placeholder, value)

\* `placeholder in s`
Contains(s, placeholder) == \E i \in 1..Len(s) : s[i] = placeholder

\* os.path.join(a, b) for a relative b, on paths that are already normal.
PathJoin(a, b) == a \o <<"/">> \o b

\* The encoder binaries the host file system offers: one regular file, one
\* directory; every other path does not exist.
FfmpegFile == "/opt/ffmpeg/bin/ffmpeg"
FfmpegDir == "/opt/ffmpeg/bin"
FfmpegMissing == "/opt/missing/ffmpeg"
BinaryExists(p) == p \in {FfmpegFile, FfmpegDir}
BinaryIsDir(p) == p = FfmpegDir

\* ------------------------------------------------------------- the state

VARIABLES
    \* the controller's configuration (BPlayblast instance attributes)
    ffmpeg_path,            \* _ffmpeg_path
    camera,                 \* _camera
    resolution_preset,      \* _resolution_preset
    width_height,           \* _width_height
    frame_range_preset,     \* _frame_range_preset
    start_frame,            \* _start_frame
    end_frame,              \* _end_frame
    visibility,             \* _visibility
    container_format,       \* _container_format
    encoder,                \* _encoder
    h264_quality,           \* _h264_quality
    h264_preset,            \* _h264_preset
    image_quality,          \* _image_quality
    \* the host application
    cameras,                \* cmds.listCameras()
    panelFocus,             \* the panel with focus is a model panel
    vpCamera,               \* camera of the focused model panel
    vpVis,                  \* visibility flags of its model editor
    renderRes,              \* defaultResolution.width / .height
    renderRange,            \* defaultRenderGlobals.startFrame / .endFrame
    playback,               \* playbackOptions min/max/ast/aet, in tenths
    timeUnit,               \* cmds.currentUnit(q=True, time=True)
    sceneFile,              \* short name of the scene file, <<>> when unsaved
    audio,                  \* sound node linked to the time slider
    files,                  \* paths that exist below the output directory
    \* one call of the controller
    pc,                     \* where the call stands
    op,                     \* the operation and its arguments
    call,                   \* local variables of execute()
    log,                    \* error-level lines logged by this call
    raised,                 \* exception that left the call, or None
    pre,                    \* viewport and files right before the call
    trace,                  \* external effects of this call, in order
    accepted,               \* last resolution / frame range set without error
    stack,                  \* execute() calls suspended in the encoder wait loop
    ops                     \* setter calls and host changes so far

config == <<ffmpeg_path, camera, resolution_preset, width_height,
            frame_range_preset, start_frame, end_frame, visibility,
            container_format, encoder, h264_quality, h264_preset,
            image_quality>>

host == <<cameras, panelFocus, vpCamera, vpVis, renderRes, renderRange,
          playback, timeUnit, sceneFile, audio, files>>

obs == <<pc, op, call, log, raised, pre, trace>>

vars == <<config, host, obs, accepted, stack, ops>>

\* ------------------------------------------------- the host's small world

HostCameras == {"persp", "shotCam"}

AllVisible == [i \in 1..CatalogLen |-> TRUE]
OddVisible == [i \in 1..CatalogLen |-> i % 2 = 1]
ViewportVisibilities == {AllVisible, OddVisible}

RenderResolutions == {<<1920, 1080>>, <<640, 480>>}
RenderRanges == {<<1, 10>>, <<5, 20>>}

\* minTime, maxTime, animationStartTime, animationEndTime in tenths of a frame
PlaybackOptions ==
    { [min |-> 15, max |-> 249, ast |-> 0, aet |-> 480],
      [min |-> -25, max |-> 100, ast |-> -25, aet |-> 100] }

TimeUnits == { <<"film">>, <<"ntsc">>, <<"29.97", "fps">>, <<"bogus">> }

\* Every named unit of the host, two of its "<number>fps" units and a unit
\* the controller does not know.
AllTimeUnits ==
    TimeUnits \cup { <<"game">>, <<"pal">>, <<"show">>, <<"palf">>,
                     <<"ntscf">>, <<"23.976", "fps">> }

NoAudio == [node |-> None, exists |-> FALSE, offset |-> 0]
AudioStates ==
    { NoAudio,
      [node |-> "audio1", exists |-> TRUE, offset |-> 5],
      [node |-> "audio1", exists |-> FALSE, offset |-> 5] }

ProjectDir == <<"proj">>
SceneName == <<"shot">>

\* The scene is unsaved, or saved as shot.ma.
SceneFiles == { <<>>, SceneName \o <<".ma">> }

\* ------------------------------------------------------------ observation

NoCall == [none |-> TRUE]
NoOp == [name |-> None]
Snapshot ==
    [camera |-> vpCamera, vis |-> vpVis, files |-> files,
     encoding |-> <<container_format, encoder>>,
     resolution |-> <<resolution_preset, width_height>>]

\* An operation starts: the observation is reset for it.
Begin(name, arg) ==
    /\ op' = [name |-> name, arg |-> arg]
    /\ pre' = Snapshot
    /\ call' = NoCall

\* A setter is one step: it runs to its return (or to the exception that
\* leaves it), so the call is over in the next state.
Setter(name, arg, errors, exc) ==
    /\ pc = "idle"
    /\ ops < MaxOps
    /\ ops' = ops + 1
    /\ Begin(name, arg)
    /\ log' = errors
    /\ raised' = exc
    /\ trace' = <<>>
    /\ pc' = "done"
    /\ accepted' =
         CASE name = "set_resolution" /\ errors = <<>> ->
                [accepted EXCEPT !.resolution = arg]
           [] name = "set_frame_range" /\ errors = <<>> ->
                [accepted EXCEPT !.frame_range = arg]
           [] OTHER -> accepted
    /\ UNCHANGED <<host, stack>>

\* ---------------------------------------------------- preset resolution

\* preset_to_resolution raises RuntimeError unless this holds.
IsResolutionPreset(name) == name \in DOMAIN RESOLUTION_LOOKUP

preset_to_resolution(resolution_preset_) ==
    IF resolution_preset_ = "Render" THEN renderRes
    ELSE RESOLUTION_LOOKUP[resolution_preset_]

\* preset_to_frame_range raises RuntimeError unless this holds.
IsFrameRangePreset(name) == name \in FRAME_RANGE_PRESETS

preset_to_frame_range(frame_range_preset_) ==
    CASE frame_range_preset_ = "Render" -> renderRange
      [] frame_range_preset_ = "Playback" ->
            <<IntTrunc(playback.min), IntTrunc(playback.max)>>
      [] frame_range_preset_ = "Animation" ->
            <<IntTrunc(playback.ast), IntTrunc(playback.aet)>>

get_resolution_width_height ==
    IF resolution_preset # None THEN preset_to_resolution(resolution_preset)
    ELSE width_height

get_start_end_frame ==
    IF frame_range_preset # None THEN preset_to_frame_range(frame_range_preset)
    ELSE <<start_frame, end_frame>>

\* preset_to_visibility that looks the flag name up, not the label.
preset_to_visibility_ByFlagName(visibility_preset) ==
    LET preset_names == VIEWPORT_VISIBILITY_PRESETS[visibility_preset]
    IN  IF preset_names = {} THEN <<>>
        ELSE [i \in 1..CatalogLen |->
                VIEWPORT_VISIBILITY_LOOKUP[i][2] \in preset_names]

\* The expansion loop of preset_to_visibility, for a known preset.
preset_to_visibility(visibility_preset) ==
    LET preset_names == VIEWPORT_VISIBILITY_PRESETS[visibility_preset]
    IN  IF preset_names = {} THEN <<>>
        ELSE [i \in 1..CatalogLen |->
                VIEWPORT_VISIBILITY_LOOKUP[i][1] \in preset_names]

\* -------------------------------------------------------------- setters

FfmpegPathInputs == {None, "", FfmpegFile, FfmpegDir, FfmpegMissing}

set_ffmpeg_path(p) ==
    /\ Setter("set_ffmpeg_path", p, <<>>, None)
    /\ ffmpeg_path' = IF p # None /\ p # "" THEN p ELSE DEFAULT_FFMPEG_PATH
    /\ UNCHANGED <<camera, resolution_preset, width_height,
                   frame_range_preset, start_frame, end_frame, visibility,
                   container_format, encoder, h264_quality, h264_preset,
                   image_quality>>

CameraInputs == {None, "shotCam", "ghostCam"}

set_camera(c) ==
    LET missing == c # None /\ c \notin cameras
    IN  /\ Setter("set_camera", c,
                  IF missing THEN <<"Camera does not exist">> ELSE <<>>, None)
        /\ camera' = IF missing THEN None ELSE c
        /\ UNCHANGED <<ffmpeg_path, resolution_preset, width_height,
                       frame_range_preset, start_frame, end_frame, visibility,
                       container_format, encoder, h264_quality, h264_preset,
                       image_quality>>

ResolutionInputs ==
    { PyStr("Render"), PyStr("HD 720"), PyStr("4K"),
      PyTuple(<<PyInt(640), PyInt(480)>>),
      PyTuple(<<PyInt(0), PyInt(480)>>),
      PyTuple(<<PyFloat(6400), PyInt(480)>>) }

\* set_resolution, first try block: the preset lookup succeeded.
ResolutionIsPreset(resolution) ==
    resolution.type = "str" /\ IsResolutionPreset(resolution.val)

\* set_resolution, second try block: both items exist and are ints.
ResolutionIsValid(resolution) ==
    \/ ResolutionIsPreset(resolution)
    \/ /\ HasItem(resolution, 0) /\ ItemIsInt(resolution, 0)
       /\ HasItem(resolution, 1) /\ ItemIsInt(resolution, 1)

ResolutionPair(resolution) ==
    IF ResolutionIsPreset(resolution) THEN preset_to_resolution(resolution.val)
    ELSE <<resolution.val[1].val, resolution.val[2].val>>

\* The value of _resolution_preset when set_resolution returns: it is reset
\* on entry and assigned in the first try block only.
ResolutionPresetAfter(resolution) ==
    IF ResolutionIsPreset(resolution) THEN resolution.val ELSE None

set_resolution(resolution) ==
    LET valid == ResolutionIsValid(resolution)
        positive == /\ valid
                    /\ ResolutionPair(resolution)[1] > 0
                    /\ ResolutionPair(resolution)[2] > 0
        errors == CASE ~valid    -> <<"Invalid resolution: expected one of">>
                    [] ~positive -> <<"Invalid resolution: must be greater than zero">>
                    [] OTHER     -> <<>>
    IN  /\ Setter("set_resolution", resolution, errors, None)
        /\ resolution_preset' = ResolutionPresetAfter(resolution)
        /\ width_height' = IF positive THEN ResolutionPair(resolution)
                           ELSE width_height
        /\ UNCHANGED <<ffmpeg_path, camera, frame_range_preset, start_frame,
                       end_frame, visibility, container_format, encoder,
                       h264_quality, h264_preset, image_quality>>

FrameRangeInputs ==
    { PyStr("Render"), PyStr("Playback"), PyStr("Animation"), PyStr("Timeline"),
      PyTuple(<<PyInt(3), PyInt(8)>>),
      PyTuple(<<PyInt(3)>>) }

\* resolve_frame_range returns a list (no exception inside its try block).
FrameRangeResolves(frame_range) ==
    IF frame_range.type = "tuple"
    THEN HasItem(frame_range, 0) /\ HasItem(frame_range, 1)
    ELSE frame_range.type = "str" /\ IsFrameRangePreset(frame_range.val)

resolve_frame_range(frame_range) ==
    IF frame_range.type = "tuple"
    THEN <<frame_range.val[1].val, frame_range.val[2].val>>
    ELSE preset_to_frame_range(frame_range.val)

set_frame_range(frame_range) ==
    LET ok == FrameRangeResolves(frame_range)
    IN  /\ Setter("set_frame_range", frame_range,
                  IF ok THEN <<>> ELSE <<"Invalid frame range">>, None)
        /\ IF ok
           THEN /\ frame_range_preset' =
                      IF /\ frame_range.type = "str"
                         /\ frame_range.val \in FRAME_RANGE_PRESETS
                      THEN frame_range.val ELSE None
                /\ start_frame' = resolve_frame_range(frame_range)[1]
                /\ end_frame' = resolve_frame_range(frame_range)[2]
           ELSE UNCHANGED <<frame_range_preset, start_frame, end_frame>>
        /\ UNCHANGED <<ffmpeg_path, camera, resolution_preset, width_height,
                       visibility, container_format, encoder, h264_quality,
                       h264_preset, image_quality>>

\* Lists are handed over with their items as they are (booleans).
VisibilityInputs ==
    { PyNone, PyStr("Viewport"), PyStr("Geo"), PyStr("Dynamics"),
      PyStr("Wireframe"),
      PyTuple(<<TRUE, FALSE>>),
      PyTuple(OddVisible),
      PyTuple(AllVisible \o <<FALSE>>) }

set_visibility(visibility_data) ==
    LET data == IF Truthy(visibility_data) THEN visibility_data
                ELSE PyTuple(<<>>)
        isList == data.type = "tuple"
        known == data.type = "str" /\ data.val \in DOMAIN VIEWPORT_VISIBILITY_PRESETS
    IN  /\ Setter("set_visibility", visibility_data,
                  IF isList \/ known THEN <<>>
                  ELSE <<"Invalid visibility preset">>, None)
        /\ visibility' = CASE isList -> data.val
                           [] known  -> preset_to_visibility(data.val)
                           [] OTHER  -> visibility
        /\ UNCHANGED <<ffmpeg_path, camera, resolution_preset, width_height,
                       frame_range_preset, start_frame, end_frame,
                       container_format, encoder, h264_quality, h264_preset,
                       image_quality>>

ContainerInputs == {"mov", "mp4", "Image", "avi"}
EncoderInputs == {"h264", "png"}

\* set_encoding stores the pair after its two checks; the second check
\* subscripts the table with the container and raises KeyError for a
\* container that is not a key.
EncodingStored(container_format_, encoder_) ==
    container_format_ \in DOMAIN VIDEO_ENCODER_LOOKUP

set_encoding(container_format_, encoder_) ==
    LET isKey == container_format_ \in DOMAIN VIDEO_ENCODER_LOOKUP
        errors == CASE ~isKey -> <<"Invalid container">>
                    [] encoder_ \notin VIDEO_ENCODER_LOOKUP[container_format_] ->
                          <<"Invalid encoder">>
                    [] OTHER -> <<>>
    IN  /\ Setter("set_encoding", <<container_format_, encoder_>>, errors,
                  IF isKey THEN None ELSE "KeyError")
        /\ IF EncodingStored(container_format_, encoder_)
           THEN /\ container_format' = container_format_
                /\ encoder' = encoder_
           ELSE UNCHANGED <<container_format, encoder>>
        /\ UNCHANGED <<ffmpeg_path, camera, resolution_preset, width_height,
                       frame_range_preset, start_frame, end_frame, visibility,
                       h264_quality, h264_preset, image_quality>>

H264Inputs ==
    { <<"Low", "slow">>, <<"High", "fast">>, <<"Best", "slow">>,
      <<"Low", "turbo">> }

set_h264_settings(quality, preset) ==
    LET errors == CASE quality \notin DOMAIN H264_QUALITIES ->
                          <<"Invalid h264 quality">>
                    [] preset \notin H264_PRESETS -> <<"Invalid h264 preset">>
                    [] OTHER -> <<>>
    IN  /\ Setter("set_h264_settings", <<quality, preset>>, errors, None)
        /\ IF errors = <<>>
           THEN h264_quality' = quality /\ h264_preset' = preset
           ELSE UNCHANGED <<h264_quality, h264_preset>>
        /\ UNCHANGED <<ffmpeg_path, camera, resolution_preset, width_height,
                       frame_range_preset, start_frame, end_frame, visibility,
                       container_format, encoder, image_quality>>

ImageQualityInputs == {0, 50, 100, 101}

set_image_settings(quality) ==
    LET ok == 0 < quality /\ quality <= 100
    IN  /\ Setter("set_image_settings", quality,
                  IF ok THEN <<>> ELSE <<"Invalid image quality">>, None)
        /\ image_quality' = IF ok THEN quality ELSE image_quality
        /\ UNCHANGED <<ffmpeg_path, camera, resolution_preset, width_height,
                       frame_range_preset, start_frame, end_frame, visibility,
                       container_format, encoder, h264_quality, h264_preset>>

\* ---------------------------------------------------------- host changes

\* The user (or another tool) changes the host between two controller calls.
HostChange ==
    /\ pc = "idle"
    /\ ops < MaxOps
    /\ ops' = ops + 1
    /\ UNCHANGED <<config, obs, accepted, stack>>

HostSetRenderResolution(wh) ==
    /\ HostChange
    /\ wh # renderRes
    /\ renderRes' = wh
    /\ UNCHANGED <<cameras, panelFocus, vpCamera, vpVis, renderRange,
                   playback, timeUnit, sceneFile, audio, files>>

HostSetRenderRange(r) ==
    /\ HostChange
    /\ r # renderRange
    /\ renderRange' = r
    /\ UNCHANGED <<cameras, panelFocus, vpCamera, vpVis, renderRes,
                   playback, timeUnit, sceneFile, audio, files>>

HostSetPlaybackOptions(o) ==
    /\ HostChange
    /\ o # playback
    /\ playback' = o
    /\ UNCHANGED <<cameras, panelFocus, vpCamera, vpVis, renderRes,
                   renderRange, timeUnit, sceneFile, audio, files>>

HostSetTimeUnit(u) ==
    /\ HostChange
    /\ u # timeUnit
    /\ timeUnit' = u
    /\ UNCHANGED <<cameras, panelFocus, vpCamera, vpVis, renderRes,
                   renderRange, playback, sceneFile, audio, files>>

HostSetAudio(a) ==
    /\ HostChange
    /\ a # audio
    /\ audio' = a
    /\ UNCHANGED <<cameras, panelFocus, vpCamera, vpVis, renderRes,
                   renderRange, playback, timeUnit, sceneFile, files>>

\* Focus moves to or away from a model panel.
HostSetFocus ==
    /\ HostChange
    /\ panelFocus' = ~panelFocus
    /\ UNCHANGED <<cameras, vpCamera, vpVis, renderRes, renderRange,
                   playback, timeUnit, sceneFile, audio, files>>

\* A camera other than the one the viewport looks through is deleted.
HostDeleteCamera(c) ==
    /\ HostChange
    /\ c \in cameras
    /\ c # vpCamera
    /\ cameras' = cameras \ {c}
    /\ UNCHANGED <<panelFocus, vpCamera, vpVis, renderRes, renderRange,
                   playback, timeUnit, sceneFile, audio, files>>

HostLookThrough(c) ==
    /\ HostChange
    /\ c \in cameras
    /\ c # vpCamera
    /\ vpCamera' = c
    /\ UNCHANGED <<cameras, panelFocus, vpVis, renderRes, renderRange,
                   playback, timeUnit, sceneFile, audio, files>>

HostSetViewportVisibility(v) ==
    /\ HostChange
    /\ v # vpVis
    /\ vpVis' = v
    /\ UNCHANGED <<cameras, panelFocus, vpCamera, renderRes, renderRange,
                   playback, timeUnit, sceneFile, audio, files>>

\* A file appears where a final artifact would be written.
ArtifactPaths ==
    { <<"proj", "/", "blasts", "/", "shot", ".", c>> : c \in {"mp4", "mov"} }

HostCreateFile(p) ==
    /\ HostChange
    /\ p \notin files
    /\ files' = files \cup {p}
    /\ UNCHANGED <<cameras, panelFocus, vpCamera, vpVis, renderRes,
                   renderRange, playback, timeUnit, sceneFile, audio>>

\* ---------------------------------------------------------------- execute

OutputDirInputs == { <<>>, <<"{project}", "/", "blasts">> }
FilenameInputs == { <<>>, <<"{scene}">> }
PaddingInputs == {0, 2}

\* The arguments of execute(): every combination of padding, viewer and
\* overwrite for a usable directory and file name, and the do_playblast
\* defaults for the combinations with an empty directory or file name.
ExecuteInputs ==
    [output_dir : OutputDirInputs \ {<<>>}, filename : FilenameInputs \ {<<>>},
     padding : PaddingInputs, show_ornaments : {TRUE},
     show_in_viewer : BOOLEAN, overwrite : BOOLEAN]
    \cup
    [output_dir : OutputDirInputs, filename : FilenameInputs,
     padding : {DEFAULT_PADDING}, show_ornaments : {TRUE},
     show_in_viewer : {TRUE}, overwrite : {FALSE}]

requires_ffmpeg == container_format # "Image"

\* The error validate_ffmpeg logs, or None when it returns True.
validate_ffmpeg ==
    CASE ffmpeg_path = ""             -> "ffmpeg executable path not set"
      [] ~BinaryExists(ffmpeg_path)   -> "ffmpeg executable path does not exists"
      [] BinaryIsDir(ffmpeg_path)     -> "Invalid ffmpeg path"
      [] OTHER                        -> None

\* cmds.workspace(q=True, rootDirectory=True): the host always has a
\* workspace, and its root is a path.
get_project_dir_path == ProjectDir

\* os.path.splitext(name)[0]
SplitextRoot(name) ==
    IF Len(name) > 1 /\ name[Len(name)] \in {".ma", ".mb"}
    THEN SubSeq(name, 1, Len(name) - 1) ELSE name

get_scene_name ==
    IF sceneFile # <<>> THEN SplitextRoot(sceneFile) ELSE <<"untitled">>

resolve_output_directory_path(dir_path) ==
    IF Contains(dir_path, "{project}")
    THEN Replace(dir_path, "{project}", get_project_dir_path) ELSE dir_path

resolve_output_filename(filename) ==
    IF Contains(filename, "{scene}")
    THEN Replace(filename, "{scene}", get_scene_name) ELSE filename

\* The final artifact <outputDir>/<filename>.<container>.
OutputPath(dir, filename) ==
    PathJoin(dir, filename \o <<".", container_format>>)

\* <outputDir>/playblast_temp, the directory the frames to encode go to.
PlayblastOutputDir(dir) == dir \o <<"/", "playblast_temp">>

\* get_visibility that hands out the stored vector whatever it holds.
get_visibility_StoredOnly == visibility

get_visibility == IF visibility = <<>> THEN vpVis ELSE visibility

\* What a caller of get_visibility() gets: without a viewport in focus
\* get_viewport_visibility logs and returns None.
GetVisibilityResult ==
    IF visibility = <<>> /\ ~panelFocus THEN PyNone ELSE PyTuple(get_visibility)

\* A script calls get_visibility(), after other calls or right after a
\* get_visibility() call of its own (`again`: with nothing in between).
call_get_visibility ==
    /\ \/ pc = "idle"
       \/ pc = "done" /\ op.name = "get_visibility"
    /\ op' = [name |-> "get_visibility", arg |-> PyNone]
    /\ pre' = Snapshot
    /\ call' = [result |-> GetVisibilityResult,
                again |-> pc = "done",
                first |-> IF pc = "done" THEN call.first
                          ELSE GetVisibilityResult,
                stored |-> visibility]
    /\ log' = IF visibility = <<>> /\ ~panelFocus
              THEN <<"Failed to get active view",
                     "Failed to get viewport visibility. A viewport is not active">>
              ELSE <<>>
    /\ raised' = None
    /\ trace' = <<>>
    /\ pc' = "done"
    /\ UNCHANGED <<config, host, accepted, stack, ops>>

\* create_viewport_visibility_flags reads visibility_data[0..CatalogLen-1]:
\* it raises IndexError on a shorter vector.
FlagsIndexable(visibility_data) == Len(visibility_data) >= CatalogLen

create_viewport_visibility_flags(visibility_data) ==
    [i \in 1..CatalogLen |-> visibility_data[i]]

\* PlayblastOptions with the viewer flag passed on in both modes.
PlayblastOptions_ViewerInBothModes(a, dir, filename, padding) ==
    [ filename |-> IF requires_ffmpeg
                   THEN PathJoin(PlayblastOutputDir(dir), filename)
                   ELSE PathJoin(dir, filename),
      widthHeight |-> get_resolution_width_height,
      percent |-> 100,
      startTime |-> get_start_end_frame[1],
      endTime |-> get_start_end_frame[2],
      clearCache |-> TRUE,
      forceOverwrite |-> IF requires_ffmpeg THEN TRUE ELSE a.overwrite,
      format |-> "image",
      compression |-> IF requires_ffmpeg THEN "png" ELSE encoder,
      quality |-> IF requires_ffmpeg THEN 100 ELSE image_quality,
      indexFromZero |-> requires_ffmpeg,
      framePadding |-> padding,
      showOrnaments |-> a.show_ornaments,
      viewer |-> a.show_in_viewer ]

\* The keyword arguments of cmds.playblast built by execute().
PlayblastOptions(a, dir, filename, padding) ==
    [ filename |-> IF requires_ffmpeg
                   THEN PathJoin(PlayblastOutputDir(dir), filename)
                   ELSE PathJoin(dir, filename),
      widthHeight |-> get_resolution_width_height,
      percent |-> 100,
      startTime |-> get_start_end_frame[1],
      endTime |-> get_start_end_frame[2],
      clearCache |-> TRUE,
      forceOverwrite |-> IF requires_ffmpeg THEN TRUE ELSE a.overwrite,
      format |-> "image",
      compression |-> IF requires_ffmpeg THEN "png" ELSE encoder,
      quality |-> IF requires_ffmpeg THEN 100 ELSE image_quality,
      indexFromZero |-> requires_ffmpeg,
      framePadding |-> padding,
      showOrnaments |-> a.show_ornaments,
      viewer |-> IF requires_ffmpeg THEN FALSE ELSE a.show_in_viewer ]

\* The camera execute() looks through for the capture.
CaptureCamera == IF camera # None THEN camera ELSE vpCamera

\* Preflight without the overwrite check (a capture started over an
\* existing artifact).
Preflight_NoOverwriteCheck(a) ==
    CASE requires_ffmpeg /\ validate_ffmpeg # None ->
            <<validate_ffmpeg, "ffmpeg executable is not configured">>
      [] ~panelFocus ->
            <<"Failed to get active view", "An active viewport is not selected">>
      [] a.output_dir = <<>> -> <<"Output directory path not set">>
      [] a.filename = <<>> -> <<"Output file name not set">>
      [] CaptureCamera \notin cameras -> <<"Camera does not exists">>
      [] OTHER -> <<>>

\* Preflight without the camera check (the viewport is switched to a camera
\* the host does not have).
Preflight_NoCameraCheck(a) ==
    CASE requires_ffmpeg /\ validate_ffmpeg # None ->
            <<validate_ffmpeg, "ffmpeg executable is not configured">>
      [] ~panelFocus ->
            <<"Failed to get active view", "An active viewport is not selected">>
      [] a.output_dir = <<>> -> <<"Output directory path not set">>
      [] a.filename = <<>> -> <<"Output file name not set">>
      [] /\ requires_ffmpeg /\ ~a.overwrite
         /\ OutputPath(resolve_output_directory_path(a.output_dir),
                       resolve_output_filename(a.filename)) \in files ->
            <<"Output file already exists">>
      [] OTHER -> <<>>

\* Preflight in which get_viewport_panel stays silent, so that a missing
\* viewport is reported by execute() alone.
Preflight_QuietPanel(a) ==
    CASE requires_ffmpeg /\ validate_ffmpeg # None ->
            <<validate_ffmpeg, "ffmpeg executable is not configured">>
      [] ~panelFocus -> <<"An active viewport is not selected">>
      [] a.output_dir = <<>> -> <<"Output directory path not set">>
      [] a.filename = <<>> -> <<"Output file name not set">>
      [] /\ requires_ffmpeg /\ ~a.overwrite
         /\ OutputPath(resolve_output_directory_path(a.output_dir),
                       resolve_output_filename(a.filename)) \in files ->
            <<"Output file already exists">>
      [] CaptureCamera \notin cameras -> <<"Camera does not exists">>
      [] OTHER -> <<>>

\* The checks execute() makes before it touches the viewport, in the order
\* of the code: the error lines of the first check that fails (the line of
\* the helper that detected it, then the line of execute() itself), or <<>>
\* when all of them pass.
\* Preflight without the check of the file name.
Preflight_NoFilenameCheck(a) ==
    CASE requires_ffmpeg /\ validate_ffmpeg # None ->
            <<validate_ffmpeg, "ffmpeg executable is not configured">>
      [] ~panelFocus ->
            <<"Failed to get active view", "An active viewport is not selected">>
      [] a.output_dir = <<>> -> <<"Output directory path not set">>
      [] /\ requires_ffmpeg /\ ~a.overwrite
         /\ OutputPath(resolve_output_directory_path(a.output_dir),
                       resolve_output_filename(a.filename)) \in files ->
            <<"Output file already exists">>
      [] CaptureCamera \notin cameras -> <<"Camera does not exists">>
      [] OTHER -> <<>>

Preflight(a) ==
    CASE requires_ffmpeg /\ validate_ffmpeg # None ->
            <<validate_ffmpeg, "ffmpeg executable is not configured">>
      [] ~panelFocus ->
            <<"Failed to get active view", "An active viewport is not selected">>
      [] a.output_dir = <<>> -> <<"Output directory path not set">>
      [] a.filename = <<>> -> <<"Output file name not set">>
      [] /\ requires_ffmpeg /\ ~a.overwrite
         /\ OutputPath(resolve_output_directory_path(a.output_dir),
                       resolve_output_filename(a.filename)) \in files ->
            <<"Output file already exists">>
      [] CaptureCamera \notin cameras -> <<"Camera does not exists">>
      [] OTHER -> <<>>

\* execute(), from its entry to the call of the capture primitive: the
\* precondition checks, the option set, and the viewport being switched to
\* the capture camera and the capture visibility.  execute() itself has no
\* guard on who calls it, or when.
ExecuteBody(a) ==
    LET dir == resolve_output_directory_path(a.output_dir)
        filename == resolve_output_filename(a.filename)
        padding == IF a.padding <= 0 THEN DEFAULT_PADDING ELSE a.padding
    IN
    /\ op' = [name |-> "execute", arg |-> a]
    /\ pre' = Snapshot
    /\ UNCHANGED <<config, accepted, ops>>
    /\ UNCHANGED <<cameras, panelFocus, renderRes, renderRange, playback,
                   timeUnit, sceneFile, audio, files>>
    /\ IF Preflight(a) # <<>>
       THEN \* return before the viewport transaction
            /\ log' = Preflight(a)
            /\ raised' = None
            /\ trace' = <<>>
            /\ pc' = "done"
            /\ call' = NoCall
            /\ UNCHANGED <<vpCamera, vpVis>>
       ELSE /\ vpCamera' = CaptureCamera
            /\ log' = <<>>
            /\ IF FlagsIndexable(get_visibility)
               THEN /\ vpVis' = create_viewport_visibility_flags(get_visibility)
                    /\ raised' = None
                    /\ trace' = <<"set_active_camera", "set_viewport_visibility">>
                    /\ pc' = "playblast"
                    /\ call' =
                         [ padding |-> padding,
                           show_in_viewer |-> a.show_in_viewer,
                           output_path |-> OutputPath(dir, filename),
                           playblast_output_dir |-> PlayblastOutputDir(dir),
                           filename |-> filename,
                           options |-> PlayblastOptions(a, dir, filename, padding),
                           start_frame |-> get_start_end_frame[1],
                           command |-> None,
                           orig_camera |-> vpCamera,
                           orig_visibility_flags |->
                               create_viewport_visibility_flags(vpVis) ]
               ELSE \* IndexError out of create_viewport_visibility_flags
                    /\ UNCHANGED vpVis
                    /\ raised' = "IndexError"
                    /\ trace' = <<"set_active_camera">>
                    /\ pc' = "done"
                    /\ call' = NoCall

\* execute() called by a script, between two other calls.
execute(a) ==
    /\ pc = "idle"
    /\ UNCHANGED stack
    /\ ExecuteBody(a)

\* AfterCapture without the `if playblast_failed: return`.
AfterCapture_IgnoreFailure(ok) ==
    IF requires_ffmpeg THEN "encode" ELSE "done"

\* Where execute() goes after the capture primitive and the restoration.
AfterCapture(ok) ==
    IF ~ok THEN "done"
    ELSE IF requires_ffmpeg THEN "encode" ELSE "done"

\* cmds.playblast(**options) inside try/except/finally: the primitive
\* succeeds or raises (a failed capture may or may not have created the frame
\* directory), then the finally block restores the original viewport camera
\* and visibility, then execute() returns if the capture failed.
playblast(ok, partial) ==
    /\ pc = "playblast"
    /\ ok => ~partial
    /\ partial => requires_ffmpeg
    /\ files' = CASE ok /\ requires_ffmpeg -> files \cup {call.playblast_output_dir}
                  [] ok /\ ~requires_ffmpeg -> files \cup {call.options.filename}
                  [] partial -> files \cup {call.playblast_output_dir}
                  [] OTHER -> files
    /\ trace' = trace
                \o (IF ok THEN <<"playblast">>
                    ELSE <<"playblast", "playblast_raised">>)
                \o (IF ok /\ call.options.viewer THEN <<"playblast_viewer">>
                    ELSE <<>>)
                \o <<"restore">>
    /\ vpCamera' = call.orig_camera
    /\ vpVis' = call.orig_visibility_flags
    /\ log' = IF ok THEN log ELSE Append(log, "Failed to created playblast")
    /\ pc' = AfterCapture(ok)
    /\ UNCHANGED <<stack, config, accepted, ops, op, call, raised, pre>>
    /\ UNCHANGED <<cameras, panelFocus, renderRes, renderRange, playback,
                   timeUnit, sceneFile, audio>>

\* ----------------------------------------------------------------- encode

\* The named time units of get_frame_rate, in hundredths of a frame per second.
NamedFrameRates ==
    [u \in {"game", "film", "pal", "ntsc", "show", "palf", "ntscf"} |->
        CASE u = "game"  -> 1500
          [] u = "film"  -> 2400
          [] u = "pal"   -> 2500
          [] u = "ntsc"  -> 3000
          [] u = "show"  -> 4800
          [] u = "palf"  -> 5000
          [] u = "ntscf" -> 6000]

\* float(text), in hundredths, for the numerals the host's units use.
FloatLiterals ==
    [t \in {"29.97", "23.976"} |-> IF t = "29.97" THEN 2997 ELSE 2398]

EndsWithFps(rate_str) == Len(rate_str) > 0 /\ rate_str[Len(rate_str)] = "fps"

\* The exception get_frame_rate leaves with, or None.
FrameRateError(rate_str) ==
    CASE Len(rate_str) = 1 /\ rate_str[1] \in DOMAIN NamedFrameRates -> None
      [] EndsWithFps(rate_str) ->
            IF Len(rate_str) = 2 /\ rate_str[1] \in DOMAIN FloatLiterals
            THEN None ELSE "ValueError"
      [] OTHER -> "RuntimeError"

\* get_frame_rate with the drop-frame rate for "ntsc".
get_frame_rate_NtscDropFrame(rate_str) ==
    IF Len(rate_str) = 1 /\ rate_str[1] \in DOMAIN NamedFrameRates
    THEN (IF rate_str[1] = "ntsc" THEN 2997 ELSE NamedFrameRates[rate_str[1]])
    ELSE FloatLiterals[rate_str[1]]

get_frame_rate(rate_str) ==
    IF Len(rate_str) = 1 /\ rate_str[1] \in DOMAIN NamedFrameRates
    THEN NamedFrameRates[rate_str[1]]
    ELSE FloatLiterals[rate_str[1]]

\* get_audio_attributes returns a pair when there is no sound node or when
\* the node's file exists; otherwise it falls off its end and returns None.
AudioAttributesIsPair == audio.node = None \/ audio.exists

\* audio_file_path of encode_h264, for a pair.
AudioFilePath == IF audio.node # None /\ audio.exists THEN "audio.wav" ELSE None

\* The exception encode_h264 leaves with, or None: get_frame_rate raises,
\* unpacking None raises TypeError, and with an audio file the statement
\* `ffmpeg += ...` reads a local that was never bound.
EncodeError ==
    CASE FrameRateError(timeUnit) # None -> FrameRateError(timeUnit)
      [] ~AudioAttributesIsPair -> "TypeError"
      [] AudioFilePath # None -> "UnboundLocalError"
      [] OTHER -> None

\* The command line encode_h264 hands to execute_ffmpeg_cmd.
FfmpegCommand ==
    [ program |-> ffmpeg_path,
      framerate |-> get_frame_rate(timeUnit),
      input |-> call.playblast_output_dir \o <<"/">> \o call.filename
                \o <<".%0", ToString(call.padding), "d.png">>,
      audio |-> AudioFilePath,
      crf |-> H264_QUALITIES[h264_quality],
      preset |-> h264_preset,
      output |-> call.output_path ]

\* remove_temp_dir that leaves the directory where it is.
remove_temp_dir_Keep(temp_dir_path) == files

\* remove_temp_dir: the *.png files and then the directory go away.
remove_temp_dir(temp_dir_path) == files \ {temp_dir_path}

\* execute() after a successful capture in encoding mode, up to the start of
\* the encoder process (or up to the exception or return that ends the call).
encode(started) ==
    /\ pc = "encode"
    /\ UNCHANGED <<stack, config, accepted, ops, op, pre>>
    /\ UNCHANGED <<cameras, panelFocus, vpCamera, vpVis, renderRes,
                   renderRange, playback, timeUnit, sceneFile, audio>>
    /\ IF encoder = "h264"
       THEN IF EncodeError # None
            THEN /\ ~started
                 /\ raised' = EncodeError
                 /\ pc' = "done"
                 /\ UNCHANGED <<files, log, trace, call>>
            ELSE /\ raised' = None
                 /\ trace' = Append(trace, "ffmpeg_start")
                 /\ call' = [call EXCEPT !.command = FfmpegCommand]
                 /\ pc' = IF started THEN "wait" ELSE "cleanup"
                 /\ UNCHANGED <<files, log>>
       ELSE /\ ~started
            /\ log' = Append(log, "Encoding failed. Unsupported encoder")
            /\ files' = remove_temp_dir(call.playblast_output_dir)
            /\ trace' = Append(trace, "remove_temp_dir")
            /\ pc' = "done"
            /\ UNCHANGED <<raised, call>>

\* The wait loop of execute_ffmpeg_cmd ends: the encoder process is no
\* longer running, having written the artifact or not.
ffmpeg_finished(written) ==
    /\ pc = "wait"
    /\ files' = IF written THEN files \cup {call.output_path} ELSE files
    /\ trace' = Append(trace, "ffmpeg_exit")
    /\ pc' = "cleanup"
    /\ UNCHANGED <<stack, config, accepted, ops, op, call, log, raised, pre>>
    /\ UNCHANGED <<cameras, panelFocus, vpCamera, vpVis, renderRes,
                   renderRange, playback, timeUnit, sceneFile, audio>>

\* The end of execute(): the temp directory is removed, then the artifact is
\* opened in the viewer when asked for (open_in_viewer logs an error when the
\* artifact does not exist).
finish ==
    /\ pc = "cleanup"
    /\ files' = remove_temp_dir(call.playblast_output_dir)
    /\ trace' = trace \o <<"remove_temp_dir">>
                \o (IF call.show_in_viewer /\ call.output_path \in files
                    THEN <<"open_in_viewer">> ELSE <<>>)
    /\ log' = IF call.show_in_viewer /\ call.output_path \notin files
              THEN Append(log, "Failed to open in viewer") ELSE log
    /\ pc' = "done"
    /\ UNCHANGED <<stack, config, accepted, ops, op, call, raised, pre>>
    /\ UNCHANGED <<cameras, panelFocus, vpCamera, vpVis, renderRes,
                   renderRange, playback, timeUnit, sceneFile, audio>>

\* Control is back with the caller (a return, or the exception propagating).
\* A call made by a button click that the wait loop of an outer call had
\* dispatched goes back to that loop: Qt reports an exception of the slot
\* and carries on.
Return ==
    /\ pc = "done"
    /\ IF stack = <<>>
       THEN /\ pc' = "idle"
            /\ op' = NoOp
            /\ call' = NoCall
            /\ log' = <<>>
            /\ raised' = None
            /\ pre' = NoCall
            /\ trace' = <<>>
            /\ UNCHANGED stack
       ELSE LET outer == stack[Len(stack)]
            IN  /\ pc' = outer.pc
                /\ op' = outer.op
                /\ call' = outer.call
                /\ log' = outer.log
                /\ raised' = outer.raised
                /\ pre' = outer.pre
                /\ trace' = outer.trace
                /\ stack' = SubSeq(stack, 1, Len(stack) - 1)
    /\ UNCHANGED <<config, host, accepted, ops>>

\* ------------------------------------------------------ the specification

\* The state after BPlayblast(ffmpeg_path) in a scene with the default
\* `persp` camera in the focused viewport: __init__ runs every setter with
\* its DEFAULT_ value, and set_resolution / set_frame_range resolve the
\* "Render" preset against the host once.
\* BPlayblast(): the controller right after construction, nothing called yet.
InitController ==
    /\ ffmpeg_path \in {DEFAULT_FFMPEG_PATH, FfmpegFile}
    /\ camera = DEFAULT_CAMERA
    /\ resolution_preset = DEFAULT_RESOLUTION
    /\ width_height = <<1920, 1080>>
    /\ frame_range_preset = DEFAULT_FRAME_RANGE
    /\ start_frame = 1
    /\ end_frame = 10
    /\ visibility = <<>>
    /\ container_format = DEFAULT_CONTAINER
    /\ encoder = DEFAULT_ENCODER
    /\ h264_quality = DEFAULT_H264_QUALITY
    /\ h264_preset = DEFAULT_H264_PRESET
    /\ image_quality = DEFAULT_IMAGE_QUALITY
    /\ pc = "idle"
    /\ op = NoOp
    /\ call = NoCall
    /\ log = <<>>
    /\ raised = None
    /\ pre = NoCall
    /\ trace = <<>>
    /\ accepted = [resolution |-> PyStr(DEFAULT_RESOLUTION),
                   frame_range |-> PyStr(DEFAULT_FRAME_RANGE)]
    /\ stack = <<>>
    /\ ops = 0

\* The host the controller is constructed in, with time unit u, sound a and
\* scene file f.
InitHost(u, a, f) ==
    /\ cameras = HostCameras
    /\ panelFocus = TRUE
    /\ vpCamera = "persp"
    /\ vpVis = AllVisible
    /\ renderRes = <<1920, 1080>>
    /\ renderRange = <<1, 10>>
    /\ playback = [min |-> 15, max |-> 249, ast |-> 0, aet |-> 480]
    /\ timeUnit = u
    /\ sceneFile = f
    /\ audio = a
    /\ files = {}

Init == InitController /\ InitHost(<<"film">>, NoAudio, SceneName \o <<".ma">>)

Next ==
    \/ \E p \in FfmpegPathInputs : set_ffmpeg_path(p)
    \/ \E c \in CameraInputs : set_camera(c)
    \/ \E r \in ResolutionInputs : set_resolution(r)
    \/ \E f \in FrameRangeInputs : set_frame_range(f)
    \/ \E v \in VisibilityInputs : set_visibility(v)
    \/ \E c \in ContainerInputs, e \in EncoderInputs : set_encoding(c, e)
    \/ \E h \in H264Inputs : set_h264_settings(h[1], h[2])
    \/ \E q \in ImageQualityInputs : set_image_settings(q)
    \/ \E wh \in RenderResolutions : HostSetRenderResolution(wh)
    \/ \E r \in RenderRanges : HostSetRenderRange(r)
    \/ \E o \in PlaybackOptions : HostSetPlaybackOptions(o)
    \/ \E u \in TimeUnits : HostSetTimeUnit(u)
    \/ \E a \in AudioStates : HostSetAudio(a)
    \/ HostSetFocus
    \/ \E c \in HostCameras : HostDeleteCamera(c)
    \/ \E c \in HostCameras : HostLookThrough(c)
    \/ \E v \in ViewportVisibilities : HostSetViewportVisibility(v)
    \/ \E p \in ArtifactPaths : HostCreateFile(p)
    \/ call_get_visibility
    \/ \E a \in ExecuteInputs : execute(a)
    \/ \E ok \in BOOLEAN, partial \in BOOLEAN : playblast(ok, partial)
    \/ \E started \in BOOLEAN : encode(started)
    \/ \E written \in BOOLEAN : ffmpeg_finished(written)
    \/ finish
    \/ Return

Spec == Init /\ [][Next]_vars

\* ------------------------------------------------- the scene to encode

\* A session in a scene, saved or not, with any time unit and any sound on
\* the time slider: the script picks the encoding and plays the scene out.
InitEncode ==
    /\ InitController
    /\ \E u \in AllTimeUnits, a \in AudioStates, f \in SceneFiles :
          InitHost(u, a, f)

NextEncode ==
    \/ \E c \in ContainerInputs, e \in EncoderInputs : set_encoding(c, e)
    \/ \E h \in H264Inputs : set_h264_settings(h[1], h[2])
    \/ \E a \in ExecuteInputs : execute(a)
    \/ \E ok \in BOOLEAN, partial \in BOOLEAN : playblast(ok, partial)
    \/ \E started \in BOOLEAN : encode(started)
    \/ \E written \in BOOLEAN : ffmpeg_finished(written)
    \/ finish
    \/ Return

SpecEncode == InitEncode /\ [][NextEncode]_vars

\* ------------------------------------------------------------ the window

\* How deep button clicks dispatched from inside a wait loop may nest.
MaxDepth == 1

\* The placeholder texts of the two line edits of BPlayblastUi.
OutputDirPlaceholder == <<"{project}", "/", "movies">>
FilenamePlaceholder == <<"{scene}">>

\* The arguments do_playblast passes to execute(): an empty line edit gives
\* its placeholder text, the padding is DEFAULT_PADDING, the rest are the
\* check boxes.
DoPlayblastArgs(dir_text, filename_text, viewer, overwrite) ==
    [ output_dir |-> IF dir_text = <<>> THEN OutputDirPlaceholder ELSE dir_text,
      filename |-> IF filename_text = <<>> THEN FilenamePlaceholder
                   ELSE filename_text,
      padding |-> DEFAULT_PADDING,
      show_ornaments |-> TRUE,
      show_in_viewer |-> viewer,
      overwrite |-> overwrite ]

\* The Playblast button is clicked while the event loop of the host is idle.
do_playblast(dir_text, filename_text, viewer, overwrite) ==
    /\ pc = "idle"
    /\ UNCHANGED stack
    /\ ExecuteBody(DoPlayblastArgs(dir_text, filename_text, viewer, overwrite))

\* The Playblast button is clicked while execute_ffmpeg_cmd waits for the
\* encoder: processEvents() in the wait loop dispatches the click, and
\* do_playblast calls execute() on the same controller, on top of the call
\* that is waiting.
do_playblast_in_wait_loop(dir_text, filename_text, viewer, overwrite) ==
    /\ pc = "wait"
    /\ Len(stack) < MaxDepth
    /\ stack' = Append(stack, [pc |-> pc, op |-> op, call |-> call,
                               log |-> log, raised |-> raised, pre |-> pre,
                               trace |-> trace])
    /\ ExecuteBody(DoPlayblastArgs(dir_text, filename_text, viewer, overwrite))

\* The settings dialog reports a new encoder path.
on_settings_dialog_modified(p) == set_ffmpeg_path(p)

NextUi ==
    \/ \E d \in OutputDirInputs, f \in FilenameInputs,
          v \in BOOLEAN, o \in BOOLEAN : do_playblast(d, f, v, o)
    \/ \E d \in OutputDirInputs, f \in FilenameInputs,
          v \in BOOLEAN, o \in BOOLEAN : do_playblast_in_wait_loop(d, f, v, o)
    \/ \E p \in FfmpegPathInputs : on_settings_dialog_modified(p)
    \/ \E c \in HostCameras : HostLookThrough(c)
    \/ \E v \in ViewportVisibilities : HostSetViewportVisibility(v)
    \/ \E p \in ArtifactPaths : HostCreateFile(p)
    \/ \E ok \in BOOLEAN, partial \in BOOLEAN : playblast(ok, partial)
    \/ \E started \in BOOLEAN : encode(started)
    \/ \E written \in BOOLEAN : ffmpeg_finished(written)
    \/ finish
    \/ Return

\* The controller driven by the window: the button, the settings dialog, and
\* the user working in the viewport and on the disk.
SpecUi == Init /\ [][NextUi]_vars

\* ================================================================ claims

InTrace(e) == \E i \in 1..Len(trace) : trace[i] = e

ExecuteRuns == op.name = "execute"
ExecuteOver == op.name = "execute" /\ pc = "done"
ViewportAsBefore == vpCamera = pre.camera /\ vpVis = pre.vis

SetterNames ==
    {"set_ffmpeg_path", "set_camera", "set_resolution", "set_frame_range",
     "set_visibility", "set_encoding", "set_h264_settings",
     "set_image_settings"}

InTable(c, e) == c \in DOMAIN VIDEO_ENCODER_LOOKUP /\ e \in VIDEO_ENCODER_LOOKUP[c]

\* C1 (as claimed): once execute() has entered the viewport transaction, the
\* viewport camera and every visibility flag are, when the call is over,
\* what they were right before the call.
C1_ViewportRestored ==
    (ExecuteOver /\ trace # <<>>) => ViewportAsBefore

\* C2 (as claimed): no exception leaves execute().
C2_NoExceptionEscapes ==
    ExecuteRuns => raised = None

\* C3 (as claimed): set_encoding with a pair that is not in the compatibility
\* table logs an error and keeps the stored pair, so the stored pair is
\* always a pair of the table.
C3_InvalidPairRejected ==
    /\ (/\ pc = "done" /\ op.name = "set_encoding"
        /\ ~InTable(op.arg[1], op.arg[2]))
       => (log # <<>> /\ <<container_format, encoder>> = pre.encoding)
    /\ InTable(container_format, encoder)

\* C4 (as claimed): no configuration setter raises to its caller.
C4_SettersNeverRaise ==
    op.name \in SetterNames => raised = None

\* The artifact execute() would write, from the arguments of the call.
ArtifactOfCall ==
    OutputPath(resolve_output_directory_path(op.arg.output_dir),
               resolve_output_filename(op.arg.filename))

\* The encoder binary is needed and is unset, missing or a directory.
EncoderBinaryUnusable ==
    /\ container_format # "Image"
    /\ \/ ffmpeg_path = ""
       \/ ~BinaryExists(ffmpeg_path)
       \/ BinaryIsDir(ffmpeg_path)

\* The artifact of the call existed before it, and overwrite is off.
ArtifactInTheWay ==
    /\ container_format # "Image"
    /\ ~op.arg.overwrite
    /\ ArtifactOfCall \in pre.files

\* The camera the call captures with is not a camera of the host.
CaptureCameraMissing ==
    (IF camera # None THEN camera ELSE pre.camera) \notin cameras

NoSideEffect ==
    /\ pc = "done"
    /\ ViewportAsBefore
    /\ files = pre.files
    /\ trace = <<>>

\* C5 (as claimed): with encoding required, overwrite off and the artifact
\* already there, execute() aborts before any capture work -- viewport and
\* files untouched, no capture, no encoder -- and logs exactly one error.
C5_ExistingArtifactOneError ==
    (ExecuteRuns /\ ArtifactInTheWay) => (NoSideEffect /\ Len(log) = 1)

\* C5 (amended): as above, and the abort logs exactly one error when the
\* encoder binary is usable and a viewport has focus; otherwise the earlier
\* check aborts the call, with two error lines.
C5_ExistingArtifactAborts ==
    (ExecuteRuns /\ ArtifactInTheWay) =>
        /\ NoSideEffect
        /\ raised = None
        /\ Len(log) = IF ~EncoderBinaryUnusable /\ panelFocus THEN 1 ELSE 2

C5_Witness ==
    /\ ExecuteOver /\ ArtifactInTheWay
    /\ log = <<"Output file already exists">>

\* C6: an execute() call one of whose preconditions fails (encoder binary
\* unusable while encoding is required, no viewport with focus, empty output
\* directory or file name, capture camera unknown to the host) ends with
\* the viewport camera and flags unchanged, no file created or deleted, and
\* neither the capture primitive nor the encoder invoked.
C6_PreconditionFailureNoEffect ==
    (/\ ExecuteRuns
     /\ \/ EncoderBinaryUnusable
        \/ ~panelFocus
        \/ op.arg.output_dir = <<>>
        \/ op.arg.filename = <<>>
        \/ CaptureCameraMissing)
    => NoSideEffect

C6_Witness ==
    /\ ExecuteOver
    /\ camera = "shotCam" /\ "shotCam" \notin cameras
    /\ ~EncoderBinaryUnusable /\ panelFocus
    /\ log = <<"Camera does not exists">>

PreconditionError ==
    \/ EncoderBinaryUnusable
    \/ ~panelFocus
    \/ op.arg.output_dir = <<>>
    \/ op.arg.filename = <<>>
    \/ ArtifactInTheWay
    \/ CaptureCameraMissing

\* C7 (as claimed): an execute() call aborted by a precondition error emits
\* exactly one error-level log line.
C7_PreconditionErrorLoggedOnce ==
    (ExecuteOver /\ PreconditionError) => Len(log) = 1

\* C7 (amended): the aborted call emits exactly one error-level line for an
\* empty output directory or file name, an existing artifact without
\* overwrite, and an unknown camera; it emits exactly two (the line of the
\* helper that found the fault and the line of execute()) for an unusable
\* encoder binary and for a missing viewport.
C7_PreconditionErrorLines ==
    (ExecuteOver /\ PreconditionError) =>
        Len(log) = IF EncoderBinaryUnusable \/ ~panelFocus THEN 2 ELSE 1

C7_Witness ==
    /\ ExecuteOver
    /\ ~EncoderBinaryUnusable /\ ~panelFocus
    /\ log = <<"Failed to get active view", "An active viewport is not selected">>

\* C8 (as claimed): a call in encoding mode whose capture succeeded starts
\* the encoder, then removes the temp directory whatever the encode outcome,
\* and only then opens the viewer.
C8_EncodeRemoveView ==
    (/\ ExecuteOver /\ container_format # "Image"
     /\ InTrace("playblast") /\ ~InTrace("playblast_raised"))
    => \E i, j \in 1..Len(trace) :
          /\ i < j
          /\ trace[i] = "ffmpeg_start"
          /\ trace[j] = "remove_temp_dir"
          /\ \A k \in 1..Len(trace) : trace[k] = "open_in_viewer" => j < k

\* C9: when the capture primitive fails, execute() logs an error and stops
\* right after restoring the viewport: no encoder, no removal of the temp
\* directory, no viewer.
C9_CaptureFailureStops ==
    InTrace("playblast_raised") =>
        /\ pc = "done"
        /\ raised = None
        /\ log # <<>> /\ log[Len(log)] = "Failed to created playblast"
        /\ trace[Len(trace)] = "restore"
        /\ ViewportAsBefore
        /\ ~InTrace("ffmpeg_start")
        /\ ~InTrace("remove_temp_dir")
        /\ ~InTrace("open_in_viewer")
        /\ ~InTrace("playblast_viewer")
        /\ pre.files \subseteq files

C9_Witness ==
    /\ ExecuteOver /\ InTrace("playblast_raised")
    /\ container_format # "Image"
    /\ call.playblast_output_dir \in files
    /\ call.show_in_viewer
    /\ camera = "shotCam" /\ pre.camera = "persp"

\* C10 (as claimed): when the last accepted resolution (frame range) setting
\* is a preset name, the capture primitive gets the host's present values for
\* that preset.
C10_PresetsResolvedAtUse ==
    pc = "playblast" =>
        /\ accepted.resolution.type = "str" =>
              call.options.widthHeight =
                  preset_to_resolution(accepted.resolution.val)
        /\ accepted.frame_range.type = "str" =>
              <<call.options.startTime, call.options.endTime>> =
                  preset_to_frame_range(accepted.frame_range.val)

\* C11 (as claimed, the part about aborts): every execute() that ends after
\* it has modified the viewport has passed through the viewport restoration.
C11_AbortsPassRestoration ==
    (ExecuteOver /\ InTrace("set_active_camera")) => InTrace("restore")

\* C12 (as claimed): while one execute() call has not returned, no second
\* execute() call is in progress on the controller with the viewport in its
\* hands.
C12_OneExecuteAtATime ==
    \A i \in 1..Len(stack) :
        stack[i].op.name = "execute" =>
            ~(ExecuteRuns /\ InTrace("set_active_camera"))

GetVisibilityOver == pc = "done" /\ op.name = "get_visibility"

\* The case of C13: nothing explicit is stored (set_visibility("Viewport")
\* stores the empty list) and a viewport is active.
ViewportPresetActive == visibility = <<>> /\ panelFocus

\* What C13 says of a get_visibility() call but for the number of entries.
ReturnsLiveSnapshot ==
    /\ call.result = PyTuple(vpVis)
    /\ Len(call.result.val) = CatalogLen
    /\ call.first = call.result
    /\ call.stored = visibility

\* C13 (as claimed): with the "Viewport" preset active, get_visibility()
\* returns the live snapshot of the active viewport, 35 entries, one per
\* catalog slot; a repeated call returns the same vector, and the stored
\* configuration is what it was.
C13_SnapshotOf35 ==
    (GetVisibilityOver /\ ViewportPresetActive) =>
        (ReturnsLiveSnapshot /\ Len(call.result.val) = 35)

\* C13 (amended): the same with the 37 entries the catalog has.
C13_SnapshotPerCatalogSlot ==
    (GetVisibilityOver /\ ViewportPresetActive) =>
        (ReturnsLiveSnapshot /\ Len(call.result.val) = 37)

C13_Witness ==
    /\ GetVisibilityOver /\ ViewportPresetActive
    /\ call.again
    /\ vpVis = OddVisible

GeoWasSet ==
    pc = "done" /\ op.name = "set_visibility" /\ op.arg = PyStr("Geo")

\* Exactly the slots labeled "NURBS Surfaces" and "Polygons" are true.
OnlySurfacesAndPolygons(v) ==
    \A i \in 1..Len(v) :
        v[i] <=> (/\ i <= CatalogLen
                  /\ VIEWPORT_VISIBILITY_LOOKUP[i][1] \in
                         {"NURBS Surfaces", "Polygons"})

\* C14 (as claimed): the "Geo" preset expands to a vector of 35 booleans in
\* which exactly the slots labeled "NURBS Surfaces" and "Polygons" are true.
C14_GeoOf35 ==
    GeoWasSet => (Len(visibility) = 35 /\ OnlySurfacesAndPolygons(visibility))

\* C14 (amended): the vector has one boolean per catalog slot, 37, and
\* exactly the two named slots are true.
C14_GeoPerCatalogSlot ==
    GeoWasSet =>
        /\ Len(visibility) = CatalogLen
        /\ Len(visibility) = 37
        /\ OnlySurfacesAndPolygons(visibility)
        /\ Cardinality({i \in 1..Len(visibility) : visibility[i]}) = 2

C14_Witness ==
    /\ GeoWasSet
    /\ pre.vis = OddVisible
    /\ \E i \in 1..Len(visibility) : visibility[i]

\* The table of C15, in hundredths of a frame per second.
ClaimedNamedRates ==
    [game |-> 1500, film |-> 2400, pal |-> 2500, ntsc |-> 3000,
     show |-> 4800, palf |-> 5000, ntscf |-> 6000]

RateSupported(u) ==
    \/ Len(u) = 1 /\ u[1] \in DOMAIN ClaimedNamedRates
    \/ Len(u) = 2 /\ u[2] = "fps"

ClaimedFrameRate(u) ==
    IF Len(u) = 1 THEN ClaimedNamedRates[u[1]] ELSE FloatLiterals[u[1]]

\* execute() is over and had come to encode_h264.
H264EncodeReached ==
    /\ ExecuteOver
    /\ InTrace("playblast") /\ ~InTrace("playblast_raised")
    /\ requires_ffmpeg /\ encoder = "h264"

\* C15: an encoder process is started only with the frame rate the table
\* gives for the host's time unit (the number before "fps" for such a unit);
\* with any other unit the call ends in an error and no encoder process is
\* started.
C15_FrameRateByTimeUnit ==
    /\ (ExecuteRuns /\ InTrace("ffmpeg_start")) =>
          /\ RateSupported(timeUnit)
          /\ call.command.framerate = ClaimedFrameRate(timeUnit)
    /\ (H264EncodeReached /\ ~RateSupported(timeUnit)) =>
          /\ raised = "RuntimeError"
          /\ ~InTrace("ffmpeg_start")
          /\ call.command = None

C15_Witness ==
    /\ ExecuteOver /\ InTrace("ffmpeg_exit")
    /\ timeUnit = <<"29.97", "fps">>
    /\ call.command.framerate = 2997

C15_WitnessUnsupported ==
    H264EncodeReached /\ timeUnit = <<"bogus">> /\ raised = "RuntimeError"

\* The directory and file name of the call after template substitution.
ResolvedOutputDir == resolve_output_directory_path(op.arg.output_dir)
ResolvedFilename == resolve_output_filename(op.arg.filename)

\* C16: the options the capture primitive is called with follow the encoding
\* mode: with encoding, forced overwrite, png, quality 100, zero-based
\* indexing, no viewer and a target under <outputDir>/playblast_temp/;
\* without, the caller's overwrite flag, the configured image codec and
\* quality, no zero-based indexing, the caller's viewer flag and the target
\* <outputDir>/<filename>; the padding is the given one when positive, else 4.
C16_OptionsByEncodingMode ==
    (ExecuteRuns /\ pc = "playblast") =>
        LET o == call.options
            a == op.arg
        IN  /\ requires_ffmpeg =>
                  /\ o.forceOverwrite = TRUE
                  /\ o.compression = "png"
                  /\ o.quality = 100
                  /\ o.indexFromZero = TRUE
                  /\ o.viewer = FALSE
                  /\ o.filename = ResolvedOutputDir
                                  \o <<"/", "playblast_temp", "/">>
                                  \o ResolvedFilename
            /\ ~requires_ffmpeg =>
                  /\ o.forceOverwrite = a.overwrite
                  /\ o.compression = encoder
                  /\ o.quality = image_quality
                  /\ o.indexFromZero = FALSE
                  /\ o.viewer = a.show_in_viewer
                  /\ o.filename = ResolvedOutputDir \o <<"/">>
                                  \o ResolvedFilename
            /\ o.framePadding = IF a.padding > 0 THEN a.padding ELSE 4

C16_Witness ==
    /\ ExecuteRuns /\ pc = "playblast"
    /\ requires_ffmpeg
    /\ op.arg.show_in_viewer /\ ~op.arg.overwrite
    /\ op.arg.padding = 2

C16_WitnessImage ==
    /\ ExecuteRuns /\ pc = "playblast"
    /\ ~requires_ffmpeg
    /\ ~op.arg.show_in_viewer /\ op.arg.overwrite
    /\ op.arg.padding = 0
    /\ image_quality = 50

\* execute() has gone past its precondition checks.
PastValidation == ExecuteRuns /\ (pc # "done" \/ trace # <<>>)

C17_WitnessUntitled ==
    /\ PastValidation
    /\ sceneFile = <<>>
    /\ ResolvedFilename = <<"untitled">>
    /\ ResolvedOutputDir = <<"proj", "/", "blasts">>

InLog(line) == \E i \in 1..Len(log) : log[i] = line

\* execute() is over and had come to its encode step with an encoder other
\* than h264 stored for a container that needs encoding.
UnsupportedEncoderReached ==
    /\ ExecuteOver
    /\ InTrace("playblast") /\ ~InTrace("playblast_raised")
    /\ requires_ffmpeg /\ encoder # "h264"

\* C18: at the encode step with a stored encoder that is not h264, execute()
\* logs an error, starts no encoder process, removes the temporary frame
\* directory and opens no viewer.
C18_UnsupportedEncoder ==
    UnsupportedEncoderReached =>
        /\ InLog("Encoding failed. Unsupported encoder")
        /\ ~InTrace("ffmpeg_start")
        /\ call.command = None
        /\ InTrace("remove_temp_dir")
        /\ call.playblast_output_dir \notin files
        /\ ~InTrace("open_in_viewer")
        /\ ~InTrace("playblast_viewer")
        /\ raised = None

C18_Witness ==
    /\ UnsupportedEncoderReached
    /\ container_format = "mp4" /\ encoder = "png"
    /\ op.arg.show_in_viewer
    /\ InTrace("remove_temp_dir")

RejectedSetResolution ==
    pc = "done" /\ op.name = "set_resolution" /\ log # <<>>

\* C19 (as claimed): a rejected set_resolution call leaves the active preset
\* name and the stored pair as they were before the call.
C19_RejectedKeepsResolution ==
    RejectedSetResolution =>
        <<resolution_preset, width_height>> = pre.resolution

AudioFileOnDisk == audio.node # None /\ audio.exists

\* C20 (as claimed): encode_h264, with a time unit it knows, always ends by
\* starting the encoder process; the command has the audio input when the
\* time slider has a sound whose file exists, and no audio argument when it
\* has no sound or the file is missing.
C20_EncodeStartsEncoder ==
    (H264EncodeReached /\ RateSupported(timeUnit)) =>
        /\ raised = None
        /\ InTrace("ffmpeg_start")
        /\ call.command # None
        /\ IF AudioFileOnDisk THEN call.command.audio # None
           ELSE call.command.audio = None

\* C21 (as claimed): whatever set_visibility calls were made, the stored
\* visibility is empty or has exactly one entry per catalog slot, and
\* execute() never indexes past the end of the vector when it builds the
\* per-flag map.
C21_VisibilityAlignedWithCatalog ==
    /\ visibility = <<>> \/ Len(visibility) = CatalogLen
    /\ ExecuteRuns => raised # "IndexError"

====
